---- MODULE Spec2Model ----
(***************************************************************************)
(* Model of the reading store of cuve-api (app/db.py): the SQLite table    *)
(* `readings`, the four operations insert_reading, get_last, get_last_n    *)
(* and get_extremes, and the phases of insert_reading that other           *)
(* connections can interleave with.                                        *)
(*                                                                         *)
(* fetched_at_epoch is a REAL in the code; it is only compared, added to   *)
(* and subtracted from whole numbers of seconds, so whole seconds are      *)
(* used here.                                                              *)
(***************************************************************************)
EXTENDS Integers, Sequences, FiniteSets, TLC

(* ---------------------------------------------------------------- bounds *)
\* Largest number of rows the table is allowed to reach in the model.
MaxRows == 3
\* Largest LIMIT passed to get_last_n / get_extremes.
MaxN == 2

(* ---------------------------------------------------------------- inputs *)
\* The readings handed to insert_reading: distance_cm and timestamp as the
\* sensor reported them (one of them with the empty timestamp) and the
\* fetched_at_epoch of the fetch. Every epoch is shared by two different
\* readings, every sensor report is fetched at two different epochs.
Fetched ==
    { [distance_cm |-> 50, sensor_timestamp |-> "A", fetched_at_epoch |-> 100],
      [distance_cm |-> 50, sensor_timestamp |-> "A", fetched_at_epoch |-> 200],
      [distance_cm |-> 10, sensor_timestamp |-> "B", fetched_at_epoch |-> 200],
      [distance_cm |-> 10, sensor_timestamp |-> "B", fetched_at_epoch |-> 300],
      [distance_cm |-> 30, sensor_timestamp |-> "",  fetched_at_epoch |-> 300],
      [distance_cm |-> 30, sensor_timestamp |-> "",  fetched_at_epoch |-> 100] }

SensorIps == {"10.0.0.7"}

\* _since_epoch: lengths of the four bounded periods, in seconds.
DaySeconds   == 24 * 3600
WeekSeconds  == 7 * 24 * 3600
MonthSeconds == 30 * 24 * 3600
YearSeconds  == 365 * 24 * 3600

Periods == {"day", "week", "month", "year", "all"}
\* Period is a typing.Literal, not enforced at run time.
PeriodInputs == Periods \cup {"hour"}
Orders == {"max", "min"}

\* Values time.time() may return when get_extremes runs: for each bounded
\* period one clock value that puts epoch 200 exactly on the window's edge.
Clocks == { 200 + DaySeconds, 200 + WeekSeconds,
            200 + MonthSeconds, 200 + YearSeconds }

Limits == 1..MaxN

\* Connections that may run insert_reading at the same time.
Writers == {1, 2}

VARIABLES
    rows,     \* table readings: the committed rows
    seq,      \* sqlite_sequence entry of the table (AUTOINCREMENT)
    log,      \* history: ids in the order their inserts committed
    lastOp,   \* the call that completed last: name, arguments, outcome
    pc,       \* per writer: phase of its insert_reading call in flight
    call,     \* per writer: arguments of the call in flight
    sel,      \* per writer: what the dedupe SELECT returned
    txn,      \* per writer: row inserted in its open transaction
    lock,     \* writer holding the database write lock, 0 if none
    collector, \* where the background task collector_loop stands
    conns,    \* callers holding an open sqlite3 connection
    opened,   \* whether the store call made last opened a connection
    cache,    \* RealCuveClient._cache: the reading fetched last, if any
    contacted \* whether the get_reading call made last asked the sensor

vars == <<rows, seq, log, lastOp, pc, call, sel, txn, lock, collector,
          conns, opened, cache, contacted>>
connVars == <<pc, call, sel, txn, lock>>

\* _connect(db_path) by caller c, and con.close() in its finally clause.
Open(S, c) == S \cup {c}
Close(S, c) == S \ {c}

(* ------------------------------------------------------------ data types *)
DbReading(i, d, ts, ip, f) ==
    [ id |-> i, distance_cm |-> d, sensor_timestamp |-> ts,
      sensor_ip |-> ip, fetched_at_epoch |-> f ]

\* Arguments of a call; the fields an operation does not take stay at
\* their NoArg value.
NoArg ==
    [ distance_cm |-> 0, sensor_timestamp |-> "", sensor_ip |-> "",
      fetched_at_epoch |-> 0, dedupe_by_sensor_ts |-> FALSE,
      n |-> 0, period |-> "", order |-> "", now |-> 0,
      force_refresh |-> FALSE ]

InsertArgs ==
    { [ NoArg EXCEPT !.distance_cm = s.distance_cm,
                     !.sensor_timestamp = s.sensor_timestamp,
                     !.sensor_ip = ip,
                     !.fetched_at_epoch = s.fetched_at_epoch,
                     !.dedupe_by_sensor_ts = d ] :
        s \in Fetched, ip \in SensorIps, d \in BOOLEAN }

NoRow == DbReading(0, 0, "", "", 0)

\* self._cache = None
NoReading == [ some |-> FALSE, distance_cm |-> 0, sensor_timestamp |-> "",
               sensor_ip |-> "", fetched_at_epoch |-> 0 ]

Min(a, b) == IF a <= b THEN a ELSE b

(* --------------------------------------------------------------- queries *)
\* ORDER BY fetched_at_epoch DESC, id DESC
MoreRecent(a, b) ==
    \/ a.fetched_at_epoch > b.fetched_at_epoch
    \/ /\ a.fetched_at_epoch = b.fetched_at_epoch
       /\ a.id > b.id

\* The three ORDER BY clauses of the module: does a come before b?
Before(key, a, b) ==
    CASE key = "recent" -> MoreRecent(a, b)
      [] key = "max" ->
            \/ a.distance_cm > b.distance_cm
            \/ a.distance_cm = b.distance_cm /\ MoreRecent(a, b)
      [] key = "min" ->
            \/ a.distance_cm < b.distance_cm
            \/ a.distance_cm = b.distance_cm /\ MoreRecent(a, b)

RECURSIVE OrderBy(_, _)
OrderBy(S, key) ==
    IF S = {} THEN << >>
    ELSE LET top == CHOOSE r \in S : \A q \in S \ {r} : Before(key, r, q)
         IN  <<top>> \o OrderBy(S \ {top}, key)

\* Mutant: the LIMIT clause is missing.
LimitMissing(s, n) == s

\* LIMIT n; SQLite treats a negative LIMIT as no limit.
Limit(s, n) ==
    IF n < 0 THEN s ELSE SubSeq(s, 1, Min(n, Len(s)))

\* Mutant: ORDER BY id DESC only.
SelectRecentByIdOnly(table, n) ==
    LET renumbered == { [r EXCEPT !.fetched_at_epoch = 0] : r \in table }
        picked == Limit(OrderBy(renumbered, "recent"), n)
    IN  [ i \in 1..Len(picked) |->
            CHOOSE r \in table : r.id = picked[i].id ]

\* SELECT ... ORDER BY fetched_at_epoch DESC, id DESC LIMIT n
SelectRecent(table, n) == Limit(OrderBy(table, "recent"), n)

\* Mutant: a month of 31 days.
SinceEpochMonth31(period, now) ==
    CASE period = "all"   -> [raises |-> FALSE, bounded |-> FALSE, since |-> 0]
      [] period = "day"   -> [raises |-> FALSE, bounded |-> TRUE,
                              since |-> now - DaySeconds]
      [] period = "week"  -> [raises |-> FALSE, bounded |-> TRUE,
                              since |-> now - WeekSeconds]
      [] period = "month" -> [raises |-> FALSE, bounded |-> TRUE,
                              since |-> now - 31 * DaySeconds]
      [] period = "year"  -> [raises |-> FALSE, bounded |-> TRUE,
                              since |-> now - YearSeconds]
      [] OTHER            -> [raises |-> TRUE, bounded |-> FALSE, since |-> 0]

\* _since_epoch: the lower bound, whether there is one, whether it raises.
SinceEpoch(period, now) ==
    CASE period = "all"   -> [raises |-> FALSE, bounded |-> FALSE, since |-> 0]
      [] period = "day"   -> [raises |-> FALSE, bounded |-> TRUE,
                              since |-> now - DaySeconds]
      [] period = "week"  -> [raises |-> FALSE, bounded |-> TRUE,
                              since |-> now - WeekSeconds]
      [] period = "month" -> [raises |-> FALSE, bounded |-> TRUE,
                              since |-> now - MonthSeconds]
      [] period = "year"  -> [raises |-> FALSE, bounded |-> TRUE,
                              since |-> now - YearSeconds]
      [] OTHER            -> [raises |-> TRUE, bounded |-> FALSE, since |-> 0]

\* Mutant: both orders run the DESC statement.
SelectExtremesAlwaysDesc(table, w, n, order) ==
    LET inWindow == IF w.bounded
                    THEN { r \in table : r.fetched_at_epoch >= w.since }
                    ELSE table
    IN  Limit(OrderBy(inWindow, "max"), n)

\* SELECT ... {where} ORDER BY distance_cm DESC|ASC, fetched_at_epoch DESC,
\* id DESC LIMIT n
SelectExtremes(table, w, n, order) ==
    LET inWindow == IF w.bounded
                    THEN { r \in table : r.fetched_at_epoch >= w.since }
                    ELSE table
        key == IF order = "max" THEN "max" ELSE "min"
    IN  Limit(OrderBy(inWindow, key), n)

Completed(name, p, a, r, o) ==
    [ op |-> name, proc |-> p, arg |-> a, ret |-> r, out |-> o ]

\* The process runs one handler at a time (the store calls are synchronous):
\* a request handler queries the store when no other caller is busy with an
\* outcome.
ReaderFree == lastOp.op \in {"init_db", "idle"}

\* The collector may insert again right after an insert.
WriterFree == lastOp.op \in {"init_db", "idle", "insert_reading"}

\* Mutant: the SELECT also sees rows of transactions that are still open.
get_last_dirty ==
    /\ ReaderFree
    /\ LET found == SelectRecent(rows \cup { txn[p] : p \in { q \in Writers :
                                                        pc[q] = "written" } }, 1)
       IN  lastOp' = Completed("get_last", 0, NoArg,
                               IF found = << >> THEN "None" ELSE "DbReading",
                               found)
    /\ conns' = Close(Open(conns, 0), 0)
    /\ opened' = TRUE
    /\ UNCHANGED <<rows, seq, log, connVars, collector, cache, contacted>>

\* Mutant: no `if not row` test, DbReading(**dict(None)) raises.
get_last_unchecked ==
    /\ ReaderFree
    /\ LET found == SelectRecent(rows, 1)
       IN  lastOp' = Completed("get_last", 0, NoArg,
                               IF found = << >> THEN "TypeError"
                                                ELSE "DbReading",
                               found)
    /\ conns' = Close(Open(conns, 0), 0)
    /\ opened' = TRUE
    /\ UNCHANGED <<rows, seq, log, connVars, collector, cache, contacted>>

get_last ==
    /\ ReaderFree
    /\ LET found == SelectRecent(rows, 1)
       IN  lastOp' = Completed("get_last", 0, NoArg,
                               IF found = << >> THEN "None" ELSE "DbReading",
                               found)
    /\ conns' = Close(Open(conns, 0), 0)
    /\ opened' = TRUE
    /\ UNCHANGED <<rows, seq, log, connVars, collector, cache, contacted>>

get_last_n(n) ==
    /\ ReaderFree
    /\ lastOp' = Completed("get_last_n", 0, [NoArg EXCEPT !.n = n], "list",
                           SelectRecent(rows, n))
    /\ conns' = Close(Open(conns, 0), 0)
    /\ opened' = TRUE
    /\ UNCHANGED <<rows, seq, log, connVars, collector, cache, contacted>>

\* Mutant: _connect runs before _since_epoch, outside the try statement.
get_extremes_connect_first(period, n, order, now) ==
    /\ ReaderFree
    /\ LET w == SinceEpoch(period, now)
           a == [NoArg EXCEPT !.period = period, !.n = n,
                              !.order = order, !.now = now]
       IN  lastOp' = IF w.raises
                     THEN Completed("get_extremes", 0, a, "ValueError", << >>)
                     ELSE Completed("get_extremes", 0, a, "list",
                                    SelectExtremes(rows, w, n, order))
    /\ conns' = IF SinceEpoch(period, now).raises
               THEN Open(conns, 0)
               ELSE Close(Open(conns, 0), 0)
    /\ opened' = TRUE
    /\ UNCHANGED <<rows, seq, log, connVars, collector, cache, contacted>>

\* since = _since_epoch(period) comes first and may raise ValueError; only
\* then con = _connect(db_path), the SELECT, and finally: con.close().
get_extremes(period, n, order, now) ==
    /\ ReaderFree
    /\ LET w == SinceEpoch(period, now)
           a == [NoArg EXCEPT !.period = period, !.n = n,
                              !.order = order, !.now = now]
       IN  lastOp' = IF w.raises
                     THEN Completed("get_extremes", 0, a, "ValueError", << >>)
                     ELSE Completed("get_extremes", 0, a, "list",
                                    SelectExtremes(rows, w, n, order))
    /\ conns' = IF SinceEpoch(period, now).raises
               THEN conns
               ELSE Close(Open(conns, 0), 0)
    /\ opened' = ~SinceEpoch(period, now).raises
    /\ UNCHANGED <<rows, seq, log, connVars, collector, cache, contacted>>

\* The caller is done with the outcome: the endpoint has built its response
\* from the readings, the collector goes to sleep until the next tick.
Respond ==
    /\ lastOp.op \in {"get_last", "get_last_n", "get_extremes",
                      "insert_reading", "get_reading"}
    /\ lastOp' = Completed("idle", 0, NoArg, "None", << >>)
    /\ UNCHANGED <<rows, seq, log, connVars, collector, conns, opened, cache,
                   contacted>>

(* ---------------------------------------------------------------- insert *)
\* Mutant: the dedupe SELECT takes the row inserted last (ORDER BY id DESC).
DedupeSelectLastInserted(table) ==
    LET found == SelectRecentByIdOnly(table, 1)
    IN  IF found = << >>
        THEN [some |-> FALSE, sensor_timestamp |-> ""]
        ELSE [some |-> TRUE, sensor_timestamp |-> found[1].sensor_timestamp]

\* Mutant: the dedupe SELECT takes the oldest row (ORDER BY ... ASC).
DedupeSelectOldest(table) ==
    LET all == OrderBy(table, "recent")
    IN  IF all = << >>
        THEN [some |-> FALSE, sensor_timestamp |-> ""]
        ELSE [some |-> TRUE,
              sensor_timestamp |-> all[Len(all)].sensor_timestamp]

\* The dedupe SELECT: sensor_timestamp of the most recent row, if any.
DedupeSelect(table) ==
    LET found == SelectRecent(table, 1)
    IN  IF found = << >>
        THEN [some |-> FALSE, sensor_timestamp |-> ""]
        ELSE [some |-> TRUE, sensor_timestamp |-> found[1].sensor_timestamp]

\* Mutant: the test on a non-empty sensor_timestamp is missing.
DedupeHitEmptyToo(row, a) ==
    /\ a.dedupe_by_sensor_ts
    /\ row.some
    /\ row.sensor_timestamp = a.sensor_timestamp

\* Mutant: the comparison of the two timestamps is inverted (!= for ==).
DedupeHitInverted(row, a) ==
    /\ a.dedupe_by_sensor_ts
    /\ row.some
    /\ row.sensor_timestamp # a.sensor_timestamp
    /\ a.sensor_timestamp # ""

\* if row and row["sensor_timestamp"] == sensor_timestamp and sensor_timestamp
DedupeHit(row, a) ==
    /\ a.dedupe_by_sensor_ts
    /\ row.some
    /\ row.sensor_timestamp = a.sensor_timestamp
    /\ a.sensor_timestamp # ""

\* INTEGER PRIMARY KEY AUTOINCREMENT: one more than the largest id the table
\* ever held.
NextId(sequence, table) ==
    LET used == {sequence} \cup { r.id : r \in table }
    IN  1 + CHOOSE m \in used : \A k \in used : k <= m

InsertedRow(sequence, table, a) ==
    DbReading(NextId(sequence, table), a.distance_cm, a.sensor_timestamp,
              a.sensor_ip, a.fetched_at_epoch)

\* Mutant: the dedupe test looks at every stored row, not at the newest one.
insert_reading_dedupe_any(p, a) ==
    /\ WriterFree
    /\ pc[p] = "idle"
    /\ lock = 0
    /\ IF /\ a.dedupe_by_sensor_ts
          /\ a.sensor_timestamp # ""
          /\ \E r \in rows : r.sensor_timestamp = a.sensor_timestamp
       THEN /\ lastOp' = Completed("insert_reading", p, a, "False", << >>)
            /\ UNCHANGED <<rows, seq, log>>
       ELSE /\ Cardinality(rows) < MaxRows
            /\ LET r == InsertedRow(seq, rows, a)
               IN  /\ rows' = rows \cup {r}
                   /\ seq' = r.id
                   /\ log' = Append(log, r.id)
                   /\ lastOp' = Completed("insert_reading", p, a, "True", <<r>>)
    /\ conns' = Close(Open(conns, p), p)
    /\ opened' = TRUE
    /\ UNCHANGED <<connVars, collector, cache, contacted>>

\* Mutant: a duplicate replaces the most recent row instead of being skipped.
insert_reading_replace(p, a) ==
    /\ WriterFree
    /\ pc[p] = "idle"
    /\ lock = 0
    /\ IF DedupeHit(DedupeSelect(rows), a)
       THEN /\ rows' = (rows \ {SelectRecent(rows, 1)[1]})
                          \cup {[SelectRecent(rows, 1)[1] EXCEPT
                                   !.distance_cm = a.distance_cm,
                                   !.fetched_at_epoch = a.fetched_at_epoch]}
            /\ lastOp' = Completed("insert_reading", p, a, "False", << >>)
            /\ UNCHANGED <<seq, log>>
       ELSE /\ Cardinality(rows) < MaxRows
            /\ LET r == InsertedRow(seq, rows, a)
               IN  /\ rows' = rows \cup {r}
                   /\ seq' = r.id
                   /\ log' = Append(log, r.id)
                   /\ lastOp' = Completed("insert_reading", p, a, "True", <<r>>)
    /\ conns' = Close(Open(conns, p), p)
    /\ opened' = TRUE
    /\ UNCHANGED <<connVars, collector, cache, contacted>>

\* insert_reading run from _connect to close with no other connection
\* acting in between.
insert_reading(p, a) ==
    /\ WriterFree
    /\ pc[p] = "idle"
    /\ lock = 0
    /\ IF DedupeHit(DedupeSelect(rows), a)
       THEN /\ lastOp' = Completed("insert_reading", p, a, "False", << >>)
            /\ UNCHANGED <<rows, seq, log>>
       ELSE /\ Cardinality(rows) < MaxRows
            /\ LET r == InsertedRow(seq, rows, a)
               IN  /\ rows' = rows \cup {r}
                   /\ seq' = r.id
                   /\ log' = Append(log, r.id)
                   /\ lastOp' = Completed("insert_reading", p, a, "True", <<r>>)
    /\ conns' = Close(Open(conns, p), p)
    /\ opened' = TRUE
    /\ UNCHANGED <<connVars, collector, cache, contacted>>

(* ----------------------------------------------- insert, phase by phase *)
\* Arguments used when several connections insert at the same time: the
\* collector's call (dedupe_by_sensor_ts=True, a non-empty timestamp).
ConcurrentArgs ==
    { a \in InsertArgs : /\ a.dedupe_by_sensor_ts
                         /\ a.sensor_timestamp # "" }

\* _connect and the dedupe SELECT, which runs in autocommit mode: it holds
\* no lock once it has returned. A duplicate returns False here.
InsertSelect(p, a) ==
    /\ pc[p] = "idle"
    /\ LET row == DedupeSelect(rows)
       IN  IF DedupeHit(row, a)
           THEN /\ lastOp' = Completed("insert_reading", p, a, "False", << >>)
                /\ UNCHANGED <<pc, call, sel>>
           ELSE /\ Cardinality(rows) + Cardinality({q \in Writers : pc[q] # "idle"})
                     < MaxRows
                /\ pc' = [pc EXCEPT ![p] = "selected"]
                /\ call' = [call EXCEPT ![p] = a]
                /\ sel' = [sel EXCEPT ![p] = row]
                /\ UNCHANGED lastOp
    /\ conns' = IF DedupeHit(DedupeSelect(rows), a)
               THEN Close(Open(conns, p), p)
               ELSE Open(conns, p)
    /\ opened' = TRUE
    /\ UNCHANGED <<rows, seq, log, txn, lock, collector, cache, contacted>>

\* Mutant: the INSERT does not wait for the write lock.
InsertExecuteNoLock(p) ==
    /\ pc[p] = "selected"
    /\ lock' = p
    /\ txn' = [txn EXCEPT ![p] = InsertedRow(seq, rows, call[p])]
    /\ pc' = [pc EXCEPT ![p] = "written"]
    /\ UNCHANGED <<rows, seq, log, lastOp, call, sel, collector, conns,
                   opened, cache, contacted>>

\* con.execute(INSERT ...): opens the transaction, takes the write lock and
\* assigns the id; the row is not visible to other connections yet.
InsertExecute(p) ==
    /\ pc[p] = "selected"
    /\ lock = 0
    /\ lock' = p
    /\ txn' = [txn EXCEPT ![p] = InsertedRow(seq, rows, call[p])]
    /\ pc' = [pc EXCEPT ![p] = "written"]
    /\ UNCHANGED <<rows, seq, log, lastOp, call, sel, collector, conns,
                   opened, cache, contacted>>

\* con.execute(INSERT ...) while another connection holds the write lock
\* until the busy timeout: sqlite3.OperationalError, then finally: close.
InsertBusy(p) ==
    /\ pc[p] = "selected"
    /\ lock \notin {0, p}
    /\ lastOp' = Completed("insert_reading", p, call[p], "OperationalError",
                           << >>)
    /\ pc' = [pc EXCEPT ![p] = "idle"]
    /\ call' = [call EXCEPT ![p] = NoArg]
    /\ sel' = [sel EXCEPT ![p] = [some |-> FALSE, sensor_timestamp |-> ""]]
    /\ conns' = Close(conns, p)
    /\ UNCHANGED <<rows, seq, log, txn, lock, collector, opened, cache,
                   contacted>>

\* con.commit(); return True; finally: con.close()
InsertCommit(p) ==
    /\ pc[p] = "written"
    /\ rows' = rows \cup {txn[p]}
    /\ seq' = txn[p].id
    /\ log' = Append(log, txn[p].id)
    /\ lock' = 0
    /\ lastOp' = Completed("insert_reading", p, call[p], "True", <<txn[p]>>)
    /\ pc' = [pc EXCEPT ![p] = "idle"]
    /\ call' = [call EXCEPT ![p] = NoArg]
    /\ sel' = [sel EXCEPT ![p] = [some |-> FALSE, sensor_timestamp |-> ""]]
    /\ txn' = [txn EXCEPT ![p] = NoRow]
    /\ conns' = Close(conns, p)
    /\ UNCHANGED <<collector, opened, cache, contacted>>

Init ==
    /\ rows = {}
    /\ seq = 0
    /\ log = << >>
    /\ lastOp = Completed("init_db", 0, NoArg, "None", << >>)
    /\ pc = [p \in Writers |-> "idle"]
    /\ call = [p \in Writers |-> NoArg]
    /\ sel = [p \in Writers |-> [some |-> FALSE, sensor_timestamp |-> ""]]
    /\ txn = [p \in Writers |-> NoRow]
    /\ lock = 0
    /\ collector = "fetching"
    /\ conns = {}
    /\ opened = TRUE
    /\ cache = NoReading
    /\ contacted = FALSE

\* One writer (the collector) and any number of readers, each call run to
\* completion.
Next ==
    \/ \E a \in InsertArgs : insert_reading(1, a)
    \/ get_last
    \/ \E n \in Limits : get_last_n(n)
    \/ \E period \in PeriodInputs, n \in Limits, order \in Orders,
          now \in Clocks : get_extremes(period, n, order, now)
    \/ Respond

Spec == Init /\ [][Next]_vars

\* Several connections inserting at the same time, and a reader.
NextConc ==
    \/ \E p \in Writers, a \in ConcurrentArgs : InsertSelect(p, a)
    \/ \E p \in Writers : InsertExecute(p)
    \/ \E p \in Writers : InsertBusy(p)
    \/ \E p \in Writers : InsertCommit(p)
    \/ get_last
    \/ Respond

SpecConc == Init /\ [][NextConc]_vars

\* Connections inserting phase by phase while other connections run the
\* three queries.
NextReaders ==
    \/ \E p \in Writers, a \in ConcurrentArgs : InsertSelect(p, a)
    \/ \E p \in Writers : InsertExecute(p)
    \/ \E p \in Writers : InsertBusy(p)
    \/ \E p \in Writers : InsertCommit(p)
    \/ get_last
    \/ \E n \in Limits : get_last_n(n)
    \/ \E period \in Periods, n \in Limits, order \in Orders,
          now \in Clocks : get_extremes(period, n, order, now)
    \/ Respond

SpecReaders == Init /\ [][NextReaders]_vars

(* ------------------------------------------ a timestamp that comes back *)
\* A sensor report, another one, then the first report again, each fetched
\* later than the one before.
Resent ==
    { [distance_cm |-> 50, sensor_timestamp |-> "A", fetched_at_epoch |-> 100],
      [distance_cm |-> 10, sensor_timestamp |-> "B", fetched_at_epoch |-> 200],
      [distance_cm |-> 50, sensor_timestamp |-> "A", fetched_at_epoch |-> 300] }

ResentArgs ==
    { [ NoArg EXCEPT !.distance_cm = s.distance_cm,
                     !.sensor_timestamp = s.sensor_timestamp,
                     !.sensor_ip = ip,
                     !.fetched_at_epoch = s.fetched_at_epoch,
                     !.dedupe_by_sensor_ts = d ] :
        s \in Resent, ip \in SensorIps, d \in BOOLEAN }

\* The collector alone, offered the three fetches in any order.
NextResent ==
    \/ \E a \in ResentArgs : insert_reading(1, a)
    \/ get_last
    \/ Respond

SpecResent == Init /\ [][NextResent]_vars

(* ------------------------------------------------------------- collector *)
\* What RealCuveClient.get_reading may hand to the collector: distance_cm is
\* int(data.get("distance_cm", -1)) and timestamp str(data.get("timestamp",
\* "")), so a report may lack either of them.
Sensed ==
    { [distance_cm |-> 50, sensor_timestamp |-> "A"],
      [distance_cm |-> 0,  sensor_timestamp |-> "B"],
      [distance_cm |-> -1, sensor_timestamp |-> "A"],
      [distance_cm |-> 50, sensor_timestamp |-> ""],
      [distance_cm |-> -1, sensor_timestamp |-> ""] }

\* Values of time.time() when the fetch returns.
FetchTimes == {100, 110}

\* What the collector is given by a fetch that returns; dedupe_by_sensor_ts
\* is the True it passes to insert_reading.
CollectorArgs ==
    { [ NoArg EXCEPT !.distance_cm = s.distance_cm,
                     !.sensor_timestamp = s.sensor_timestamp,
                     !.sensor_ip = ip,
                     !.fetched_at_epoch = f,
                     !.dedupe_by_sensor_ts = TRUE ] :
        s \in Sensed, ip \in SensorIps, f \in FetchTimes }

\* Exceptions of get_reading: the HTTP request (connection, timeout,
\* raise_for_status) and the conversion of the answer (resp.json(), int()).
FetchErrors == {"HTTPError", "ValueError"}

\* Exception of insert_reading: sqlite3 could not read or write the file.
InsertErrors == {"OperationalError"}

(* --------------------------------------------------------- sensor client *)
\* CUVE_CACHE_TTL_SECONDS, 10 unless the environment sets it.
cache_ttl_seconds == 10

\* CuveReading(distance_cm, timestamp, ip, fetched_at_epoch) built from the
\* sensor's answer a at time a.fetched_at_epoch.
CuveReading(a) ==
    [ some |-> TRUE, distance_cm |-> a.distance_cm,
      sensor_timestamp |-> a.sensor_timestamp, sensor_ip |-> a.sensor_ip,
      fetched_at_epoch |-> a.fetched_at_epoch ]

\* Mutant: <= in place of <.
cache_valid_inclusive(c, now) ==
    /\ c.some
    /\ (now - c.fetched_at_epoch) <= cache_ttl_seconds

\* _cache_valid: there is a cached reading and it is younger than the ttl.
cache_valid(c, now) ==
    /\ c.some
    /\ (now - c.fetched_at_epoch) < cache_ttl_seconds

\* RealCuveClient.get_reading with cache c, called at time
\* a.fetched_at_epoch; the sensor, if asked, answers a or the request or the
\* conversion raises exc ("" when nothing raises). asked: whether the GET
\* was sent; cache: self._cache afterwards.
get_reading(c, force_refresh, a, exc) ==
    IF (~force_refresh) /\ cache_valid(c, a.fetched_at_epoch)
    THEN [ asked |-> FALSE, ret |-> "CuveReading", reading |-> c, cache |-> c ]
    ELSE IF exc # ""
         THEN [ asked |-> TRUE, ret |-> exc, reading |-> NoReading,
                cache |-> c ]
         ELSE [ asked |-> TRUE, ret |-> "CuveReading",
                reading |-> CuveReading(a), cache |-> CuveReading(a) ]

\* A caller other than the collector asks the client for a reading.
GetReading(force_refresh, a, exc) ==
    /\ ReaderFree
    /\ LET g == get_reading(cache, force_refresh, a, exc)
       IN  /\ lastOp' = Completed("get_reading", 0,
                                  [a EXCEPT !.force_refresh = force_refresh,
                                            !.now = a.fetched_at_epoch,
                                            !.dedupe_by_sensor_ts = FALSE],
                                  g.ret,
                                  IF g.ret = "CuveReading" THEN <<g.reading>>
                                                           ELSE << >>)
           /\ cache' = g.cache
           /\ contacted' = g.asked
    /\ UNCHANGED <<rows, seq, log, connVars, collector, conns, opened>>

\* reading = await cuve.get_reading(force_refresh=True)
CollectorFetch(a, exc) == get_reading(cache, TRUE, a, exc)

\* The reading as the collector passes it on: distance_cm, timestamp, ip and
\* fetched_at_epoch of the reading, dedupe_by_sensor_ts=True.
Passed(reading) ==
    [ NoArg EXCEPT !.distance_cm = reading.distance_cm,
                   !.sensor_timestamp = reading.sensor_timestamp,
                   !.sensor_ip = reading.sensor_ip,
                   !.fetched_at_epoch = reading.fetched_at_epoch,
                   !.dedupe_by_sensor_ts = TRUE ]

(* -------------------------------------------------------- collector task *)
\* Mutant: `or` in place of `and`.
ReadingValidEither(a) == a.distance_cm >= 0 \/ a.sensor_timestamp # ""

\* if reading.distance_cm >= 0 and reading.timestamp
ReadingValid(a) == a.distance_cm >= 0 /\ a.sensor_timestamp # ""

\* Mutant: no try/except around the fetch, the exception ends the task.
CollectorFetchFailsUncaught(exc) ==
    /\ collector = "fetching"
    /\ LET g == CollectorFetch(NoArg, exc)
       IN  /\ g.ret = exc
           /\ lastOp' = Completed("get_reading", 1, NoArg, g.ret, << >>)
           /\ cache' = g.cache
           /\ contacted' = g.asked
    /\ collector' = "failed"
    /\ UNCHANGED <<rows, seq, log, connVars, conns, opened>>

\* A tick whose get_reading raises: the exception is logged, then the sleep.
CollectorFetchFails(exc) ==
    /\ collector = "fetching"
    /\ LET g == CollectorFetch(NoArg, exc)
       IN  /\ g.ret = exc
           /\ lastOp' = Completed("get_reading", 1, NoArg, g.ret, << >>)
           /\ cache' = g.cache
           /\ contacted' = g.asked
    /\ collector' = "sleeping"
    /\ UNCHANGED <<rows, seq, log, connVars, conns, opened>>

\* A tick whose reading does not pass the filter: a warning, then the sleep.
CollectorRejects(a) ==
    /\ collector = "fetching"
    /\ LET g == CollectorFetch(a, "")
           b == Passed(g.reading)
       IN  /\ g.ret = "CuveReading"
           /\ ~ReadingValid(b)
           /\ lastOp' = Completed("collector_loop", 1, b, "None", << >>)
           /\ cache' = g.cache
           /\ contacted' = g.asked
    /\ collector' = "sleeping"
    /\ UNCHANGED <<rows, seq, log, connVars, conns, opened>>

\* A tick whose reading passes the filter: insert_reading, then the sleep.
CollectorStores(a) ==
    /\ collector = "fetching"
    /\ LET g == CollectorFetch(a, "")
           b == Passed(g.reading)
       IN  /\ g.ret = "CuveReading"
           /\ ReadingValid(b)
           /\ cache' = g.cache
           /\ contacted' = g.asked
           /\ IF DedupeHit(DedupeSelect(rows), b)
              THEN /\ lastOp' = Completed("insert_reading", 1, b, "False",
                                          << >>)
                   /\ UNCHANGED <<rows, seq, log>>
              ELSE /\ Cardinality(rows) < MaxRows
                   /\ LET r == InsertedRow(seq, rows, b)
                      IN  /\ rows' = rows \cup {r}
                          /\ seq' = r.id
                          /\ log' = Append(log, r.id)
                          /\ lastOp' = Completed("insert_reading", 1, b,
                                                 "True", <<r>>)
    /\ collector' = "sleeping"
    /\ conns' = Close(Open(conns, 1), 1)
    /\ opened' = TRUE
    /\ UNCHANGED connVars

\* Mutant: no try/finally in insert_reading, the exception skips con.close().
CollectorInsertFailsLeak(a, exc) ==
    /\ collector = "fetching"
    /\ LET g == CollectorFetch(a, "")
           b == Passed(g.reading)
       IN  /\ g.ret = "CuveReading"
           /\ ReadingValid(b)
           /\ lastOp' = Completed("insert_reading", 1, b, exc, << >>)
           /\ cache' = g.cache
           /\ contacted' = g.asked
    /\ collector' = "sleeping"
    /\ conns' = Open(conns, 1)
    /\ opened' = TRUE
    /\ UNCHANGED <<rows, seq, log, connVars>>

\* A tick whose insert_reading raises: nothing was committed, the connection
\* is closed, the exception is logged, then the sleep.
CollectorInsertFails(a, exc) ==
    /\ collector = "fetching"
    /\ LET g == CollectorFetch(a, "")
           b == Passed(g.reading)
       IN  /\ g.ret = "CuveReading"
           /\ ReadingValid(b)
           /\ lastOp' = Completed("insert_reading", 1, b, exc, << >>)
           /\ cache' = g.cache
           /\ contacted' = g.asked
    /\ collector' = "sleeping"
    /\ conns' = Close(Open(conns, 1), 1)
    /\ opened' = TRUE
    /\ UNCHANGED <<rows, seq, log, connVars>>

\* asyncio.sleep(interval) returns: the loop starts the next fetch.
CollectorWakes ==
    /\ collector = "sleeping"
    /\ collector' = "fetching"
    /\ lastOp' = Completed("idle", 0, NoArg, "None", << >>)
    /\ UNCHANGED <<rows, seq, log, connVars, conns, opened, cache, contacted>>

\* on_shutdown: _collect_task.cancel() ends the task at its await.
CollectorCancelled ==
    /\ collector \in {"fetching", "sleeping"}
    /\ collector' = "cancelled"
    /\ UNCHANGED <<rows, seq, log, lastOp, connVars, conns, opened, cache,
                   contacted>>

\* The collector is the only caller of the store.
NextCollector ==
    \/ \E exc \in FetchErrors : CollectorFetchFails(exc)
    \/ \E a \in CollectorArgs : CollectorRejects(a)
    \/ \E a \in CollectorArgs : CollectorStores(a)
    \/ \E a \in CollectorArgs, exc \in InsertErrors : CollectorInsertFails(a, exc)
    \/ CollectorWakes
    \/ CollectorCancelled

SpecCollector == Init /\ [][NextCollector]_vars

\* The sleep lasts interval seconds, so a sleeping collector wakes up.
SpecCollectorFair == SpecCollector /\ WF_vars(CollectorWakes)

(* ------------------------------------------------- the client's callers *)
\* Values of time.time() when get_reading is called.
ReadingClocks == FetchTimes \cup {105}

\* What the sensor answers to a direct call, and when.
SensorAnswers ==
    { [ NoArg EXCEPT !.distance_cm = s.distance_cm,
                     !.sensor_timestamp = s.sensor_timestamp,
                     !.sensor_ip = ip,
                     !.fetched_at_epoch = f ] :
        s \in Sensed, ip \in SensorIps, f \in ReadingClocks }

\* The collector's ticks and callers that take the cached reading when
\* there is a fresh one.
NextCache ==
    \/ \E force_refresh \in BOOLEAN, a \in SensorAnswers,
          exc \in FetchErrors \cup {""} : GetReading(force_refresh, a, exc)
    \/ \E exc \in FetchErrors : CollectorFetchFails(exc)
    \/ \E a \in CollectorArgs : CollectorRejects(a)
    \/ \E a \in CollectorArgs : CollectorStores(a)
    \/ \E a \in CollectorArgs, exc \in InsertErrors :
          CollectorInsertFails(a, exc)
    \/ CollectorWakes
    \/ Respond

SpecCache == Init /\ [][NextCache]_vars

(* ------------------------------------------------- the process's callers *)
Queries == {"get_last", "get_last_n", "get_extremes"}

\* A query whose SELECT raises (sqlite3 could not read the file): finally
\* closes the connection, the exception reaches the endpoint.
QueryRaises(name, exc) ==
    /\ ReaderFree
    /\ lastOp' = Completed(name, 0, NoArg, exc, << >>)
    /\ conns' = Close(Open(conns, 0), 0)
    /\ opened' = TRUE
    /\ UNCHANGED <<rows, seq, log, connVars, collector, cache, contacted>>

\* The event loop of the process: the collector's ticks and the endpoints'
\* queries, every store call run from _connect to close.
NextProcess ==
    \/ \E exc \in FetchErrors : CollectorFetchFails(exc)
    \/ \E a \in CollectorArgs : CollectorRejects(a)
    \/ \E a \in CollectorArgs : CollectorStores(a)
    \/ \E a \in CollectorArgs, exc \in InsertErrors :
          CollectorInsertFails(a, exc)
    \/ CollectorWakes
    \/ get_last
    \/ \E n \in Limits : get_last_n(n)
    \/ \E period \in Periods, n \in Limits, order \in Orders,
          now \in Clocks : get_extremes(period, n, order, now)
    \/ \E name \in Queries, exc \in InsertErrors : QueryRaises(name, exc)
    \/ Respond

SpecProcess == Init /\ [][NextProcess]_vars

(* ------------------------------------------------------ the single writer *)
\* What the collector hands to insert_reading when it is the only writer:
\* dedupe_by_sensor_ts=True and the fetched_at_epoch of the fetch, taken
\* from a clock that does not go back: never below an epoch already stored.
SingleWriterArgs(table) ==
    { a \in InsertArgs :
        /\ a.dedupe_by_sensor_ts
        /\ \A r \in table : a.fetched_at_epoch >= r.fetched_at_epoch }

\* The collector as the only writer, and the endpoint that reads the
\* latest reading.
NextSingle ==
    \/ \E a \in SingleWriterArgs(rows) : insert_reading(1, a)
    \/ get_last
    \/ Respond

SpecSingle == Init /\ [][NextSingle]_vars

(* ---------------------------------------------------------------- volume *)
(***************************************************************************)
(* app/volume.py works on floats. Here lengths are whole tenths of a       *)
(* centimetre (184.5 cm is 1845), areas whole square centimetres and       *)
(* volumes whole litres; the names keep the source's _cm. Rounding below   *)
(* these units is not represented.                                         *)
(***************************************************************************)
\* Settings.tank_*: the default tank, a small tank whose cylinder holds less
\* than its nominal volume, and settings with a dimension or the nominal
\* volume at zero or below.
DefaultTank ==
    [ total_volume_liters |-> 10000, diameter_cm |-> 1845,
      length_cm |-> 4364, full_air_gap_cm |-> 200 ]

Tanks ==
    { DefaultTank,
      [ total_volume_liters |-> 1000, diameter_cm |-> 1000,
        length_cm |-> 1000, full_air_gap_cm |-> 0 ],
      [DefaultTank EXCEPT !.diameter_cm = 0],
      [DefaultTank EXCEPT !.diameter_cm = -1845],
      [DefaultTank EXCEPT !.length_cm = 0],
      [DefaultTank EXCEPT !.length_cm = -4364],
      [DefaultTank EXCEPT !.total_volume_liters = 0],
      [DefaultTank EXCEPT !.total_volume_liters = -10000] }

\* Distances handed to the converter, in tenths of a centimetre: below zero,
\* around the full mark (20.0 cm), mid-range, around the empty mark
\* (204.5 cm) and far beyond it.
Distances ==
    { -500, 0, 200, 210, 500, 1000, 1122, 1123, 2035, 2045, 2046, 1000000 }

Max(a, b) == IF a >= b THEN a ELSE b

\* Integer quotient rounded towards minus infinity, for either sign of b.
Quot(a, b) == IF b > 0 THEN a \div b ELSE (0 - a) \div (0 - b)

Returned(v) == [raised |-> "", value |-> v]
Raising(exc) == [raised |-> exc, value |-> 0]

\* Mutant: the upper bound is not applied.
clampLowerOnly(x, lo, hi) == Max(lo, x)

\* max(lo, min(hi, x))
clamp(x, lo, hi) == Max(lo, Min(hi, x))

\* Mutant: no clamp on the height.
distance_cm_to_height_cm_raw(distance_cm, full_air_gap_cm, diameter_cm) ==
    LET d_empty == full_air_gap_cm + diameter_cm
        h == d_empty - distance_cm
    IN  h

\* Mutant: the bounds of the clamp are swapped.
distance_cm_to_height_cm_swapped(distance_cm, full_air_gap_cm, diameter_cm) ==
    LET d_empty == full_air_gap_cm + diameter_cm
        h == d_empty - distance_cm
    IN  clamp(h, diameter_cm, 0)

\* Mutant: the height grows with the distance.
distance_cm_to_height_cm_inverted(distance_cm, full_air_gap_cm, diameter_cm) ==
    LET h == distance_cm - full_air_gap_cm
    IN  clamp(h, 0, diameter_cm)

distance_cm_to_height_cm(distance_cm, full_air_gap_cm, diameter_cm) ==
    LET d_empty == full_air_gap_cm + diameter_cm
        h == d_empty - distance_cm
    IN  clamp(h, 0, diameter_cm)

\* math.pi * r * r in square centimetres, with 355/113 for pi.
CircleArea(diameter_cm) ==
    (diameter_cm * diameter_cm * 355) \div (113 * 4 * 100)

\* math.pi * r * r * L * 1000.0: square centimetres times tenths of a
\* centimetre, over 10000, is litres.
cylinder_full_liters(diameter_cm, length_cm) ==
    Quot(CircleArea(diameter_cm) * length_cm, 10000)

\* (r*r)*acos((r-h)/r) - (r-h)*sqrt(2*r*h - h*h) evaluated by the source's
\* expression at <<diameter, h>> and rounded to the square centimetre, for
\* the heights strictly between empty and full that lie at one of the
\* Distances from the top or from the bottom of a tank of Tanks.
SegmentAreas ==
    { <<1000, 200, 1118>>, <<1000, 210, 1199>>, <<1000, 500, 3927>>,
      <<1000, 790, 6655>>, <<1000, 800, 6736>>, <<1845, 10, 18>>,
      <<1845, 300, 2826>>, <<1845, 800, 11114>>, <<1845, 922, 13358>>,
      <<1845, 923, 13377>>, <<1845, 1045, 15621>>, <<1845, 1545, 23909>>,
      <<1845, 1835, 26717>> }

\* Line 49: the division by r raises when r is 0, acos raises when (r-h)/r
\* is outside [-1, 1], that is when h is outside [0, 2r].
SegmentArea(diameter_cm, h) ==
    IF diameter_cm = 0 THEN Raising("ZeroDivisionError")
    ELSE IF h < Min(0, diameter_cm) \/ h > Max(0, diameter_cm)
         THEN Raising("ValueError")
    ELSE Returned((CHOOSE t \in SegmentAreas :
                      t[1] = diameter_cm /\ t[2] = h)[3])

\* Mutant: the ideal volume is not tested before it divides.
volume_unguarded(distance_cm, g) ==
    LET h_cm == distance_cm_to_height_cm(distance_cm, g.full_air_gap_cm,
                                         g.diameter_cm)
        two_r == g.diameter_cm
        h == clamp(h_cm, 0, two_r)
        seg == SegmentArea(g.diameter_cm, h)
        v_raw == IF h = two_r
                 THEN cylinder_full_liters(g.diameter_cm, g.length_cm)
                 ELSE Quot(seg.value * g.length_cm, 10000)
        v_full_raw == cylinder_full_liters(g.diameter_cm, g.length_cm)
    IN  IF h = 0 THEN Returned(0)
        ELSE IF h # two_r /\ seg.raised # "" THEN seg
        ELSE IF v_full_raw = 0 THEN Raising("ZeroDivisionError")
        ELSE Returned(clamp(Quot(v_raw * g.total_volume_liters, v_full_raw),
                            0, g.total_volume_liters))

\* Mutant: the raw volume is not scaled to the nominal volume.
volume_unscaled(distance_cm, g) ==
    LET h_cm == distance_cm_to_height_cm(distance_cm, g.full_air_gap_cm,
                                         g.diameter_cm)
        two_r == g.diameter_cm
        h == clamp(h_cm, 0, two_r)
        seg == SegmentArea(g.diameter_cm, h)
        v_raw == IF h = two_r
                 THEN cylinder_full_liters(g.diameter_cm, g.length_cm)
                 ELSE Quot(seg.value * g.length_cm, 10000)
        v_full_raw == cylinder_full_liters(g.diameter_cm, g.length_cm)
    IN  IF h = 0 THEN Returned(0)
        ELSE IF h # two_r /\ seg.raised # "" THEN seg
        ELSE IF v_full_raw <= 0 THEN Returned(0)
        ELSE Returned(clamp(v_raw, 0, g.total_volume_liters))

\* volume_liters_from_distance_cm for the tank settings g. 2.0 * r is the
\* diameter; k = total / v_full_raw and v = v_raw * k become one quotient.
volume_liters_from_distance_cm(distance_cm, g) ==
    LET h_cm == distance_cm_to_height_cm(distance_cm, g.full_air_gap_cm,
                                         g.diameter_cm)
        two_r == g.diameter_cm
        h == clamp(h_cm, 0, two_r)
        seg == SegmentArea(g.diameter_cm, h)
        v_raw == IF h = two_r
                 THEN cylinder_full_liters(g.diameter_cm, g.length_cm)
                 ELSE Quot(seg.value * g.length_cm, 10000)
        v_full_raw == cylinder_full_liters(g.diameter_cm, g.length_cm)
    IN  IF h = 0 THEN Returned(0)
        ELSE IF h # two_r /\ seg.raised # "" THEN seg
        ELSE IF v_full_raw <= 0 THEN Returned(0)
        ELSE Returned(clamp(Quot(v_raw * g.total_volume_liters, v_full_raw),
                            0, g.total_volume_liters))

\* Arguments of a converter call.
TankArg(distance_cm, g) ==
    [ distance_cm |-> distance_cm,
      total_volume_liters |-> g.total_volume_liters,
      diameter_cm |-> g.diameter_cm,
      length_cm |-> g.length_cm,
      full_air_gap_cm |-> g.full_air_gap_cm ]

\* with_volume_fields: the volume of a reading's distance for the settings.
with_volume_fields(distance_cm, g) ==
    /\ LET res == volume_liters_from_distance_cm(distance_cm, g)
       IN  lastOp' = Completed("volume_liters_from_distance_cm", 0,
                               TankArg(distance_cm, g),
                               IF res.raised = "" THEN "float" ELSE res.raised,
                               <<res.value>>)
    /\ UNCHANGED <<rows, seq, log, connVars, collector, conns, opened, cache,
                   contacted>>

\* A call of distance_cm_to_height_cm on its own.
height_of(distance_cm, g) ==
    /\ lastOp' = Completed("distance_cm_to_height_cm", 0,
                           TankArg(distance_cm, g), "float",
                           <<distance_cm_to_height_cm(distance_cm,
                                                      g.full_air_gap_cm,
                                                      g.diameter_cm)>>)
    /\ UNCHANGED <<rows, seq, log, connVars, collector, conns, opened, cache,
                   contacted>>

\* The converter applied to any distance under any of the settings, one call
\* after another.
NextVolume ==
    \/ \E distance_cm \in Distances, g \in Tanks :
          with_volume_fields(distance_cm, g)
    \/ \E distance_cm \in Distances, g \in Tanks : height_of(distance_cm, g)

SpecVolume == Init /\ [][NextVolume]_vars

(* ================================================================ claims *)
\* r is the row of S with the largest (fetched_at_epoch, id) pair.
IsNewest(r, S) ==
    /\ r \in S
    /\ \A q \in S :
          \/ q.fetched_at_epoch < r.fetched_at_epoch
          \/ q.fetched_at_epoch = r.fetched_at_epoch /\ q.id <= r.id

Ids(S) == { r.id : r \in S }

\* The dedupe rule as the specification words it: dedupe is on, the store is
\* not empty, and the new timestamp is non-empty and equal to the newest
\* stored reading's.
SkipCase(S, a) ==
    /\ a.dedupe_by_sensor_ts
    /\ a.sensor_timestamp # ""
    /\ \E r \in S : IsNewest(r, S) /\ r.sensor_timestamp = a.sensor_timestamp

InsertDone(op) == op.op = "insert_reading"

\* C1: an insert with dedupe on whose sensor_timestamp is non-empty and equal
\* to that of the stored reading first under (fetched_at_epoch DESC, id DESC)
\* returns False and leaves the set of stored readings unchanged.
C1_DedupeSkips ==
    [][ (InsertDone(lastOp') /\ SkipCase(rows, lastOp'.arg))
           => (lastOp'.ret = "False" /\ rows' = rows) ]_vars

\* A duplicate was skipped although the newest reading is not the one
\* inserted last.
W_C1 ==
    /\ InsertDone(lastOp)
    /\ lastOp.ret = "False"
    /\ SkipCase(rows, lastOp.arg)
    /\ \E r, q \in rows : IsNewest(r, rows) /\ q.id > r.id

\* C2: an insert the dedupe rule does not skip returns True, and the store
\* afterwards is the previous store plus exactly one reading that carries the
\* given distance_cm, sensor_timestamp, sensor_ip and fetched_at_epoch and an
\* id no stored reading had.
C2_InsertAppends ==
    [][ (InsertDone(lastOp') /\ ~SkipCase(rows, lastOp'.arg))
           => /\ lastOp'.ret = "True"
              /\ \E r \in rows' :
                    /\ r \notin rows
                    /\ rows' = rows \cup {r}
                    /\ r.id \notin Ids(rows)
                    /\ r.distance_cm = lastOp'.arg.distance_cm
                    /\ r.sensor_timestamp = lastOp'.arg.sensor_timestamp
                    /\ r.sensor_ip = lastOp'.arg.sensor_ip
                    /\ r.fetched_at_epoch = lastOp'.arg.fetched_at_epoch ]_vars

\* With dedupe on, a reading with an empty timestamp was appended to a store
\* whose newest reading has an empty timestamp too.
W_C2 ==
    /\ InsertDone(lastOp)
    /\ lastOp.ret = "True"
    /\ lastOp.arg.dedupe_by_sensor_ts
    /\ lastOp.arg.sensor_timestamp = ""
    /\ lastOp.out[1] \in rows
    /\ \E r \in rows \ {lastOp.out[1]} :
          IsNewest(r, rows \ {lastOp.out[1]}) /\ r.sensor_timestamp = ""

\* Two inserts with dedupe on and the same non-empty timestamp, the second
\* completing right after the first.
BackToBack ==
    /\ InsertDone(lastOp)
    /\ InsertDone(lastOp')
    /\ lastOp.arg.dedupe_by_sensor_ts
    /\ lastOp'.arg.dedupe_by_sensor_ts
    /\ lastOp.arg.sensor_timestamp # ""
    /\ lastOp'.arg.sensor_timestamp = lastOp.arg.sensor_timestamp

Added(op) == IF op.ret = "True" THEN 1 ELSE 0

\* C3 as stated: from any store and for any fetched_at_epoch values, two
\* back-to-back inserts with the same non-empty timestamp add exactly one
\* row. It is checked on the pairs whose first reading was stored; a pair
\* whose first reading is already a duplicate adds no row at all.
C3_Original ==
    [][ (BackToBack /\ lastOp.ret = "True")
           => Added(lastOp) + Added(lastOp') = 1 ]_vars

\* The store as it was before the first of the two inserts.
BeforeFirst == IF lastOp.ret = "True" THEN rows \ {lastOp.out[1]} ELSE rows

\* C3 amended: when the first reading's fetched_at_epoch is not below any
\* stored fetched_at_epoch, the second insert is skipped, so the two inserts
\* add at most one row: one if the newest stored reading did not carry that
\* timestamp before the first insert, none if it did.
C3_Amended ==
    [][ (BackToBack /\ \A q \in rows :
                          q.fetched_at_epoch <= lastOp.arg.fetched_at_epoch)
           => /\ lastOp'.ret = "False"
              /\ rows' = rows
              /\ Cardinality(rows' \ BeforeFirst)
                    = IF SkipCase(BeforeFirst, lastOp.arg) THEN 0 ELSE 1 ]_vars

\* The store holds the one row of the first insert, and a second insert with
\* the same timestamp and another fetched_at_epoch was skipped.
W_C3 ==
    /\ InsertDone(lastOp)
    /\ lastOp.ret = "False"
    /\ lastOp.arg.dedupe_by_sensor_ts
    /\ Cardinality(rows) = 1
    /\ \E r \in rows :
          /\ r.sensor_timestamp = lastOp.arg.sensor_timestamp
          /\ r.fetched_at_epoch # lastOp.arg.fetched_at_epoch

QueryDone(op) == op.op \in {"get_last", "get_last_n", "get_extremes"}

\* C4: the store is append-only: no step removes or alters a stored reading,
\* and a step that completes get_last, get_last_n or get_extremes leaves the
\* store as it was.
C4_AppendOnly ==
    [][ /\ rows \subseteq rows'
        /\ QueryDone(lastOp') => (rows' = rows /\ seq' = seq) ]_vars

\* A query has returned readings from a store of several readings.
W_C4 ==
    /\ lastOp.op = "get_extremes"
    /\ lastOp.ret = "list"
    /\ Cardinality(rows) >= 2
    /\ Len(lastOp.out) >= 1

\* C5: no two stored readings share an id, and ids grow in the order in which
\* the inserts committed, also when insert_reading calls interleave.
C5_IdsFollowCommits ==
    /\ \A r, q \in rows : r.id = q.id => r = q
    /\ Ids(rows) = { log[i] : i \in 1..Len(log) }
    /\ \A i, j \in 1..Len(log) : i < j => log[i] < log[j]

\* Writer 2 committed a row between writer 1's dedupe SELECT and its INSERT.
W_C5 ==
    /\ InsertDone(lastOp)
    /\ lastOp.proc = 2
    /\ lastOp.ret = "True"
    /\ pc[1] = "selected"
    /\ Len(log) >= 2

\* C6: get_last returns None exactly when the store is empty, and otherwise
\* the one stored reading with the lexicographically largest
\* (fetched_at_epoch, id) pair.
C6_GetLast ==
    lastOp.op = "get_last" =>
        /\ lastOp.ret = "None" <=> rows = {}
        /\ lastOp.ret \in {"None", "DbReading"}
        /\ lastOp.ret = "None" => lastOp.out = << >>
        /\ lastOp.ret = "DbReading" =>
              /\ Len(lastOp.out) = 1
              /\ IsNewest(lastOp.out[1], rows)

\* get_last chose between two readings of equal fetched_at_epoch.
W_C6 ==
    /\ lastOp.op = "get_last"
    /\ lastOp.ret = "DbReading"
    /\ \E q \in rows : /\ q.fetched_at_epoch = lastOp.out[1].fetched_at_epoch
                       /\ q.id < lastOp.out[1].id

\* a is strictly before b under (fetched_at_epoch DESC, id DESC).
Newer(a, b) ==
    \/ a.fetched_at_epoch > b.fetched_at_epoch
    \/ a.fetched_at_epoch = b.fetched_at_epoch /\ a.id > b.id

\* C7: get_last_n(n) returns min(n, store size) readings of the store, none
\* twice, sorted by (fetched_at_epoch DESC, id DESC), and every reading left
\* out comes after all returned ones in that order.
C7_GetLastN ==
    lastOp.op = "get_last_n" =>
        LET out == lastOp.out
            n   == lastOp.arg.n
        IN  /\ lastOp.ret = "list"
            /\ Len(out) = Min(n, Cardinality(rows))
            /\ \A i \in 1..Len(out) : out[i] \in rows
            /\ \A i, j \in 1..Len(out) : i < j => Newer(out[i], out[j])
            /\ \A r \in rows :
                  (\A i \in 1..Len(out) : out[i] # r)
                     => \A i \in 1..Len(out) : Newer(out[i], r)

\* get_last_n cut the result: the store holds more than n readings.
W_C7 ==
    /\ lastOp.op = "get_last_n"
    /\ lastOp.arg.n >= 2
    /\ Cardinality(rows) > lastOp.arg.n
    /\ Len(lastOp.out) = lastOp.arg.n

\* a is strictly before b in the ranking of get_extremes for the order.
Outranks(order, a, b) ==
    \/ order = "max" /\ a.distance_cm > b.distance_cm
    \/ order = "min" /\ a.distance_cm < b.distance_cm
    \/ a.distance_cm = b.distance_cm /\ Newer(a, b)

\* C8: get_extremes returns its readings sorted by distance_cm, descending
\* for order max and ascending for order min, readings of equal distance_cm
\* most recent first.
C8_ExtremesOrder ==
    (lastOp.op = "get_extremes" /\ lastOp.ret = "list") =>
        LET out == lastOp.out
        IN  \A i, j \in 1..Len(out) :
               i < j => /\ lastOp.arg.order = "max"
                           => out[i].distance_cm >= out[j].distance_cm
                        /\ lastOp.arg.order = "min"
                           => out[i].distance_cm <= out[j].distance_cm
                        /\ out[i].distance_cm = out[j].distance_cm
                           => Newer(out[i], out[j])

\* The scenario of the specification: readings fetched at 100, 200, 300 with
\* distances 50, 10, 30; n = 2 and order max yield 50 then 30.
W_C8 ==
    /\ lastOp.op = "get_extremes"
    /\ lastOp.arg.order = "max"
    /\ lastOp.arg.n = 2
    /\ { <<r.fetched_at_epoch, r.distance_cm>> : r \in rows }
          = { <<100, 50>>, <<200, 10>>, <<300, 30>> }
    /\ Cardinality(rows) = 3
    /\ Len(lastOp.out) = 2
    /\ lastOp.out[1].distance_cm = 50
    /\ lastOp.out[2].distance_cm = 30

\* Length of the window of a bounded period, in seconds.
WindowSeconds(period) ==
    CASE period = "day"   -> 86400
      [] period = "week"  -> 604800
      [] period = "month" -> 2592000
      [] period = "year"  -> 31536000

\* The stored readings the period admits at clock value now.
Window(period, now) ==
    IF period = "all" THEN rows
    ELSE { r \in rows : r.fetched_at_epoch >= now - WindowSeconds(period) }

\* C9: get_extremes returns at most n readings, all inside the period's
\* window (fetched_at_epoch >= now - 24h, 7d, 30d, 365d; no bound for all),
\* and they are the top-ranked readings of the window: as many as the window
\* and n allow, and no reading of the window that is left out ranks above a
\* returned one.
C9_ExtremesWindow ==
    (lastOp.op = "get_extremes" /\ lastOp.arg.period \in Periods) =>
        LET out == lastOp.out
            win == Window(lastOp.arg.period, lastOp.arg.now)
        IN  /\ lastOp.ret = "list"
            /\ Len(out) <= lastOp.arg.n
            /\ Len(out) = Min(lastOp.arg.n, Cardinality(win))
            /\ \A i \in 1..Len(out) : out[i] \in win
            /\ \A i, j \in 1..Len(out) : i # j => out[i] # out[j]
            /\ \A r \in win :
                  (\A i \in 1..Len(out) : out[i] # r)
                     => \A i \in 1..Len(out) :
                           ~Outranks(lastOp.arg.order, r, out[i])

\* A month window with a reading exactly on its edge and one outside it: the
\* reading outside has the largest distance and is not returned.
W_C9 ==
    /\ lastOp.op = "get_extremes"
    /\ lastOp.arg.period = "month"
    /\ lastOp.arg.order = "max"
    /\ Len(lastOp.out) = 1
    /\ lastOp.out[1].fetched_at_epoch = lastOp.arg.now - 2592000
    /\ \E r \in rows : /\ r.fetched_at_epoch < lastOp.arg.now - 2592000
                       /\ r.distance_cm > lastOp.out[1].distance_cm

Raised(op) == op.ret \notin {"None", "DbReading", "list", "True", "False"}

\* C10: absent data is a result, not an error: on an empty store get_last
\* returns None and get_last_n and get_extremes (valid period) return an
\* empty list; get_extremes returns an empty list when no stored reading
\* falls in the window; none of these calls raises.
C10_AbsentIsNoError ==
    /\ (lastOp.op = "get_last" /\ rows = {})
          => (lastOp.ret = "None" /\ lastOp.out = << >>)
    /\ (lastOp.op = "get_last_n" /\ rows = {})
          => (lastOp.ret = "list" /\ lastOp.out = << >>)
    /\ ( /\ lastOp.op = "get_extremes"
         /\ lastOp.arg.period \in Periods
         /\ Window(lastOp.arg.period, lastOp.arg.now) = {} )
          => (lastOp.ret = "list" /\ lastOp.out = << >>)
    /\ (QueryDone(lastOp) /\ lastOp.arg.period \in Periods \cup {""})
          => ~Raised(lastOp)

\* The store is not empty, yet the day window holds no reading.
W_C10 ==
    /\ lastOp.op = "get_extremes"
    /\ lastOp.arg.period = "day"
    /\ rows # {}
    /\ Window("day", lastOp.arg.now) = {}
    /\ lastOp.ret = "list"
    /\ lastOp.out = << >>

\* The stored readings in insertion order alternate between two timestamps
\* with strictly increasing fetched_at_epoch, and reading a continues the
\* pattern: A, then B, then A again.
Alternates(S, a) ==
    /\ Cardinality(S) <= 2
    /\ \A r \in S : r.fetched_at_epoch < a.fetched_at_epoch
    /\ \A r, q \in S :
          r.id < q.id => /\ r.fetched_at_epoch < q.fetched_at_epoch
                         /\ r.sensor_timestamp # q.sensor_timestamp
                         /\ r.sensor_timestamp = a.sensor_timestamp
    /\ (Cardinality(S) = 1) =>
          \A r \in S : r.sensor_timestamp # a.sensor_timestamp

\* C11: dedupe looks only at the most recent stored reading: when readings
\* with timestamps A, B (different from A) and A again are inserted in that
\* order into an empty store, dedupe on and fetched_at_epoch increasing, each
\* of the three inserts returns True and adds a row, so three rows are stored.
C11_ResentIsStored ==
    [][ ( /\ InsertDone(lastOp')
          /\ lastOp'.arg.dedupe_by_sensor_ts
          /\ Alternates(rows, lastOp'.arg) )
           => /\ lastOp'.ret = "True"
              /\ Cardinality(rows') = Cardinality(rows) + 1
              /\ rows \subseteq rows' ]_vars

\* The third insert of the sequence has returned True: three rows, the first
\* and the third with the same timestamp.
W_C11 ==
    /\ InsertDone(lastOp)
    /\ lastOp.ret = "True"
    /\ lastOp.arg.dedupe_by_sensor_ts
    /\ Cardinality(rows) = 3
    /\ \E r1, r2, r3 \in rows :
          /\ r1.id < r2.id /\ r2.id < r3.id
          /\ r1.fetched_at_epoch < r2.fetched_at_epoch
          /\ r2.fetched_at_epoch < r3.fetched_at_epoch
          /\ r1.sensor_timestamp = r3.sensor_timestamp
          /\ r1.sensor_timestamp # r2.sensor_timestamp
          /\ lastOp.out = <<r3>>

\* The step is a collector tick and the fetch has returned reading a.
TickWith(a) ==
    /\ collector = "fetching"
    /\ collector' = "sleeping"
    /\ lastOp'.op \in {"collector_loop", "insert_reading"}
    /\ lastOp'.arg = a

\* C12: with the collector as only writer, every stored reading has
\* distance_cm >= 0 and a non-empty sensor_timestamp, and a tick whose
\* fetched reading has distance_cm < 0 or an empty timestamp makes no
\* insert_reading call and leaves the store unchanged.
C12_OnlyValidStored ==
    [][ /\ \A r \in rows' : r.distance_cm >= 0 /\ r.sensor_timestamp # ""
        /\ \A a \in CollectorArgs :
              (TickWith(a) /\ (a.distance_cm < 0 \/ a.sensor_timestamp = ""))
                 => /\ lastOp'.op # "insert_reading"
                    /\ rows' = rows
                    /\ seq' = seq ]_vars

\* A reading with a valid distance and no timestamp was fetched and rejected
\* while readings are stored.
W_C12 ==
    /\ collector = "sleeping"
    /\ lastOp.op = "collector_loop"
    /\ lastOp.arg.distance_cm >= 0
    /\ lastOp.arg.sensor_timestamp = ""
    /\ Cardinality(rows) >= 2

\* The tick that ended last failed: get_reading or insert_reading raised.
TickFailed(op) ==
    /\ op.op \in {"get_reading", "insert_reading"}
    /\ op.ret \in FetchErrors \cup InsertErrors

\* C13: a tick whose fetch or insert raises leaves the store unchanged and
\* does not end the loop, which goes to sleep; and unless the task is
\* cancelled at shutdown, a fetch attempt always eventually follows a failed
\* tick.
C13_LoopSurvives ==
    /\ [][ (TickFailed(lastOp') /\ lastOp' # lastOp)
              => /\ rows' = rows
                 /\ seq' = seq
                 /\ log' = log
                 /\ collector' = "sleeping" ]_vars
    /\ ( (TickFailed(lastOp) /\ collector = "sleeping")
            ~> (collector \in {"fetching", "cancelled"}) )

\* Readings are stored and the tick after them failed on the insert; the
\* collector sleeps.
W_C13 ==
    /\ TickFailed(lastOp)
    /\ lastOp.op = "insert_reading"
    /\ collector = "sleeping"
    /\ rows # {}

\* Rows written by transactions that are still open.
Uncommitted == { txn[p] : p \in { q \in Writers : pc[q] = "written" } }

\* What a query returns from store S: as many rows as S and the limit allow,
\* all of them rows of S.
ReadsFrom(op, S) ==
    /\ \A i \in 1..Len(op.out) : op.out[i] \in S
    /\ op.op = "get_last" => Len(op.out) = Min(1, Cardinality(S))
    /\ op.op = "get_last_n" => Len(op.out) = Min(op.arg.n, Cardinality(S))
    /\ op.op = "get_extremes" =>
          Len(op.out) = Min(op.arg.n,
                            Cardinality(S \cap Window(op.arg.period,
                                                      op.arg.now)))

\* C14: a query that runs while inserts are in flight reads from the
\* committed store, which holds each insert's row either not at all or as the
\* complete row it commits, and never returns a row of an open transaction;
\* an insert that fails leaves the store unchanged.
C14_InsertIsAtomic ==
    [][ /\ (QueryDone(lastOp') /\ ~QueryDone(lastOp))
              => /\ ReadsFrom(lastOp', rows)
                 /\ \A i \in 1..Len(lastOp'.out) :
                       lastOp'.out[i] \notin Uncommitted
        /\ \A p \in Writers :
              (pc[p] = "written" /\ pc'[p] = "idle")
                 => /\ rows' = rows \cup {txn[p]}
                    /\ txn[p] = InsertedRow(seq, rows, call[p])
        /\ \A p \in Writers :
              (pc[p] = "selected" /\ pc'[p] = "idle")
                 => /\ lastOp'.ret \in InsertErrors
                    /\ rows' = rows
                    /\ seq' = seq
                    /\ log' = log ]_vars

\* A query has returned the committed rows while another connection holds
\* an inserted row in its open transaction.
W_C14 ==
    /\ QueryDone(lastOp)
    /\ lastOp.op = "get_last_n"
    /\ Len(lastOp.out) = 2
    /\ \E p \in Writers :
          /\ pc[p] = "written"
          /\ MoreRecent(txn[p], lastOp.out[1])
    /\ \A i \in 1..Len(lastOp.out) : lastOp.out[i] \in rows

VolumeDone(op) == op.op = "volume_liters_from_distance_cm"
HeightDone(op) == op.op = "distance_cm_to_height_cm"

\* C15 as stated: for every distance and every tank geometry the volume v
\* satisfies 0 <= v <= total_volume_liters.
C15_Original ==
    VolumeDone(lastOp) =>
        /\ lastOp.ret = "float"
        /\ 0 <= lastOp.out[1]
        /\ lastOp.out[1] <= lastOp.arg.total_volume_liters

\* C15: for every distance, negative and huge ones included, and every tank
\* geometry whose total_volume_liters is not negative, the call returns a
\* volume v with 0 <= v <= total_volume_liters.
C15_VolumeBounded ==
    (VolumeDone(lastOp) /\ lastOp.arg.total_volume_liters >= 0) =>
        /\ lastOp.ret = "float"
        /\ 0 <= lastOp.out[1]
        /\ lastOp.out[1] <= lastOp.arg.total_volume_liters

\* A negative distance on the small tank: the height is clamped to the
\* diameter and the volume is the nominal 1000 litres.
W_C15 ==
    /\ VolumeDone(lastOp)
    /\ lastOp.arg.distance_cm < 0
    /\ lastOp.arg.total_volume_liters = 1000
    /\ lastOp.out = <<1000>>

\* C16 as stated: for every distance, air gap and diameter the height lies
\* within [0, diameter_cm].
C16_Original ==
    HeightDone(lastOp) =>
        /\ lastOp.ret = "float"
        /\ 0 <= lastOp.out[1]
        /\ lastOp.out[1] <= lastOp.arg.diameter_cm

\* C16: the height is full_air_gap_cm + diameter_cm - distance_cm clamped to
\* [0, diameter_cm]: for every distance and air gap and every diameter that
\* is not negative it equals that difference when the difference lies in
\* [0, diameter_cm], 0 when it is below and diameter_cm when it is above, and
\* no error is raised; for a negative diameter it is 0.
C16_HeightClamped ==
    HeightDone(lastOp) =>
        LET a == lastOp.arg
            raw == a.full_air_gap_cm + a.diameter_cm - a.distance_cm
            h == lastOp.out[1]
        IN  /\ lastOp.ret = "float"
            /\ a.diameter_cm >= 0 =>
                  /\ 0 <= h /\ h <= a.diameter_cm
                  /\ (0 <= raw /\ raw <= a.diameter_cm) => h = raw
                  /\ raw < 0 => h = 0
                  /\ raw > a.diameter_cm => h = a.diameter_cm
            /\ a.diameter_cm < 0 => h = 0

\* A negative distance: the difference exceeds the diameter and the height
\* is the diameter.
W_C16 ==
    /\ HeightDone(lastOp)
    /\ lastOp.arg.distance_cm < 0
    /\ lastOp.arg.diameter_cm = 1845
    /\ lastOp.out = <<1845>>

\* The call was made with the distance at or below the full mark.
AtOrAboveFull(op) ==
    VolumeDone(op) /\ op.arg.distance_cm <= op.arg.full_air_gap_cm

\* C17 as stated: for every distance at or below full_air_gap_cm and every
\* geometry the volume is total_volume_liters (looked at for the positive
\* nominal volumes only).
C17_Original ==
    (AtOrAboveFull(lastOp) /\ lastOp.arg.total_volume_liters > 0) =>
        /\ lastOp.ret = "float"
        /\ lastOp.out = <<lastOp.arg.total_volume_liters>>

\* C17: for every distance at or below full_air_gap_cm and every geometry
\* with a positive diameter, a positive length and a total volume that is not
\* negative, the volume is total_volume_liters; with the default geometry the
\* distance 20.0 cm gives 10000 litres.
C17_FullTank ==
    /\ ( /\ AtOrAboveFull(lastOp)
         /\ lastOp.arg.diameter_cm > 0
         /\ lastOp.arg.length_cm > 0
         /\ lastOp.arg.total_volume_liters >= 0 )
          => /\ lastOp.ret = "float"
             /\ lastOp.out = <<lastOp.arg.total_volume_liters>>
    /\ (VolumeDone(lastOp) /\ lastOp.arg = TankArg(200, DefaultTank))
          => lastOp.out = <<10000>>

\* The small tank, whose cylinder holds 785 litres, is full at distance 0
\* and reports its nominal 1000 litres.
W_C17 ==
    /\ AtOrAboveFull(lastOp)
    /\ lastOp.arg.distance_cm = 0
    /\ lastOp.arg.diameter_cm = 1000
    /\ cylinder_full_liters(lastOp.arg.diameter_cm, lastOp.arg.length_cm) = 785
    /\ lastOp.out = <<1000>>

\* The call was made with the distance at or beyond the empty mark.
AtOrBelowEmpty(op) ==
    /\ VolumeDone(op)
    /\ op.arg.distance_cm >= op.arg.full_air_gap_cm + op.arg.diameter_cm

\* C18: for every geometry, a distance equal to full_air_gap_cm +
\* diameter_cm, or larger, gives the volume 0 and no error; with the default
\* geometry the distance 204.5 cm gives 0 litres.
C18_EmptyTank ==
    /\ AtOrBelowEmpty(lastOp)
          => (lastOp.ret = "float" /\ lastOp.out = <<0>>)
    /\ (VolumeDone(lastOp) /\ lastOp.arg = TankArg(2045, DefaultTank))
          => lastOp.out = <<0>>

\* The default tank exactly at its empty mark.
W_C18 ==
    /\ AtOrBelowEmpty(lastOp)
    /\ lastOp.arg = TankArg(2045, DefaultTank)
    /\ lastOp.out = <<0>>
    /\ volume_liters_from_distance_cm(2035, DefaultTank).value > 0

\* C19: whenever diameter_cm <= 0 or length_cm <= 0, so in particular
\* whenever the ideal cylinder volume is <= 0, the volume is 0 for every
\* distance and no error is raised, a division by zero included.
C19_DegenerateIsZero ==
    ( /\ VolumeDone(lastOp)
      /\ \/ lastOp.arg.diameter_cm <= 0
         \/ lastOp.arg.length_cm <= 0
         \/ cylinder_full_liters(lastOp.arg.diameter_cm,
                                 lastOp.arg.length_cm) <= 0 )
       => (lastOp.ret = "float" /\ lastOp.out = <<0>>)

\* A tank of length 0 at a distance that leaves a positive height: the
\* segment is computed, the ideal volume is 0 and the result is 0.
W_C19 ==
    /\ VolumeDone(lastOp)
    /\ lastOp.arg.length_cm = 0
    /\ lastOp.arg.diameter_cm > 0
    /\ distance_cm_to_height_cm(lastOp.arg.distance_cm,
                                lastOp.arg.full_air_gap_cm,
                                lastOp.arg.diameter_cm)
          \in 1..(lastOp.arg.diameter_cm - 1)
    /\ lastOp.out = <<0>>

C21_ConnectionsReleased ==
    /\ conns = {}
    /\ (lastOp.op \in Queries \cup {"insert_reading"}) => opened

\* A tick failed on the insert after readings were stored; the collector
\* sleeps and holds no connection.
W_C21 ==
    /\ lastOp.op = "insert_reading"
    /\ lastOp.ret \in InsertErrors
    /\ collector = "sleeping"
    /\ opened
    /\ rows # {}
    /\ conns = {}

\* C22: two insert_reading calls with dedupe on and the same non-empty
\* sensor_timestamp that overlap store at most one row: a call never
\* commits a row while the most recent reading of the store, committed
\* since that call's own dedupe SELECT, carries the same sensor_timestamp.
C22_ConcurrentDedupe ==
    [][ \A p \in Writers :
          (pc[p] = "written" /\ pc'[p] = "idle")
              => ~DedupeHit(DedupeSelect(rows), call[p]) ]_vars

\* C23: with one writer that always inserts with dedupe on and whose
\* fetched_at_epoch never goes back, (a) the reading inserted last is the
\* one get_last returns, and (b) no two readings that are neighbours in
\* (fetched_at_epoch DESC, id DESC) order share a non-empty sensor_timestamp.
C23_SingleWriter ==
    /\ rows # {} =>
          /\ SelectRecent(rows, 1)[1].id = log[Len(log)]
          /\ lastOp.op = "get_last" =>
                /\ Len(lastOp.out) = 1
                /\ lastOp.out[1].id = log[Len(log)]
    /\ \A r \in rows, q \in rows :
          ( /\ Newer(r, q)
            /\ ~\E m \in rows : Newer(r, m) /\ Newer(m, q)
            /\ r.sensor_timestamp # "" )
          => r.sensor_timestamp # q.sensor_timestamp

\* get_last returned the third reading stored; the first and the third
\* carry the same sensor timestamp, with a different one in between.
W_C23 ==
    /\ lastOp.op = "get_last"
    /\ Len(log) = 3
    /\ \E r \in rows, q \in rows :
          /\ r.id # q.id
          /\ r.sensor_timestamp # ""
          /\ r.sensor_timestamp = q.sensor_timestamp

\* C24: get_extremes with a period outside day, week, month, year, all
\* raises ValueError before it opens the store: it returns no reading, opens
\* no connection and leaves the store as it was. With one of the five
\* periods it never raises ValueError, and it opens the store.
C24_InvalidPeriod ==
    [][ (lastOp'.op = "get_extremes" /\ lastOp.op # "get_extremes") =>
          IF lastOp'.arg.period \in Periods
          THEN /\ lastOp'.ret = "list"
               /\ opened'
          ELSE /\ lastOp'.ret = "ValueError"
               /\ lastOp'.out = << >>
               /\ ~opened'
               /\ conns' = conns
               /\ rows' = rows
               /\ seq' = seq
               /\ log' = log ]_vars

\* get_extremes was called with period "hour" on a store holding readings.
W_C24 ==
    /\ lastOp.op = "get_extremes"
    /\ lastOp.arg.period = "hour"
    /\ lastOp.ret = "ValueError"
    /\ ~opened
    /\ rows # {}

\* C25: get_reading(force_refresh=False) returns the cached reading without
\* asking the sensor exactly when there is a cached reading whose age, now
\* minus its fetched_at_epoch, is below cache_ttl_seconds. In every other
\* case (force_refresh=True, no cached reading, an expired one) the sensor
\* is asked: a fetch that succeeds returns the new reading and makes it the
\* cached one, a fetch that fails leaves the cache as it was. The
\* collector's ticks always ask the sensor, and what a tick hands to
\* insert_reading is the reading it has just fetched.
C25_Cache ==
    [][ /\ (lastOp'.op = "get_reading" /\ lastOp'.proc = 0
              /\ lastOp.op # "get_reading") =>
          LET now == lastOp'.arg.now
              fresh == /\ cache.some
                       /\ now - cache.fetched_at_epoch < cache_ttl_seconds
          IN  IF (~lastOp'.arg.force_refresh) /\ fresh
              THEN /\ ~contacted'
                   /\ lastOp'.ret = "CuveReading"
                   /\ lastOp'.out = <<cache>>
                   /\ cache' = cache
              ELSE /\ contacted'
                   /\ lastOp'.ret = "CuveReading" =>
                         /\ lastOp'.out = <<cache'>>
                         /\ cache'.some
                         /\ cache'.distance_cm = lastOp'.arg.distance_cm
                         /\ cache'.sensor_timestamp
                               = lastOp'.arg.sensor_timestamp
                   /\ lastOp'.ret # "CuveReading" =>
                         /\ lastOp'.ret \in FetchErrors
                         /\ lastOp'.out = << >>
                         /\ cache' = cache
        /\ (collector = "fetching" /\ collector' = "sleeping") =>
              /\ contacted'
              /\ lastOp'.op = "get_reading" => cache' = cache
              /\ lastOp'.op = "insert_reading" =>
                    /\ cache'.some
                    /\ lastOp'.arg = Passed(cache') ]_vars

\* A call without force_refresh, five seconds after the collector fetched
\* and stored a reading, returned that reading from the cache and did not
\* ask the sensor.
W_C25 ==
    /\ lastOp.op = "get_reading"
    /\ lastOp.proc = 0
    /\ ~lastOp.arg.force_refresh
    /\ lastOp.arg.now = 105
    /\ lastOp.ret = "CuveReading"
    /\ ~contacted
    /\ lastOp.out = <<cache>>
    /\ cache.fetched_at_epoch = 100
    /\ \E r \in rows : Passed(cache) = Passed(r)

====
